---- MODULE Spec2Model ----
(***************************************************************************)
(* Model of experiments/Reparameterization Trick.ipynb: the two Monte      *)
(* Carlo gradient estimators grad1 (score function) and grad2              *)
(* (reparameterized) of cell 5 and the variance-comparison loop of cell 7. *)
(*                                                                         *)
(* Numbers are exact rationals <<n, d>> in lowest terms with d > 0; the    *)
(* non-finite results of numpy division are <<0, 0>> (nan), <<1, 0>>       *)
(* (+inf) and <<-1, 0>> (-inf).  Rounding of binary floating point is not  *)
(* modelled: every arithmetic step is the real-number one.  The normal     *)
(* variates come from a finite support on which the two fractional powers  *)
(* of the estimators are rational.                                         *)
(***************************************************************************)
EXTENDS Integers, Sequences, FiniteSets, TLC

----------------------------------------------------------------------------
(* Bounds of the model *)

MaxLen == 2        \* longest sample_sizes list
MaxN == 2          \* largest sample size in a list
MaxReps == 3       \* largest repetition count
MaxArg == 2        \* longest argument of a direct estimator call

----------------------------------------------------------------------------
(* Exact arithmetic *)

Abs(a) == IF a < 0 THEN -a ELSE a

Sgn(a) == IF a < 0 THEN -1 ELSE IF a > 0 THEN 1 ELSE 0

RECURSIVE Gcd(_, _)
Gcd(a, b) == IF b = 0 THEN a ELSE Gcd(b, a % b)

Norm(n, d) ==
    LET g == Gcd(Abs(n), Abs(d))
    IN  IF d = 0 THEN <<Sgn(n), 0>>
        ELSE <<(Sgn(d) * n) \div g, Abs(d) \div g>>

NaN == <<0, 0>>

Zero == <<0, 1>>

FromInt(k) == <<k, 1>>

IsFinite(a) == a[2] # 0

IsNaN(a) == a = NaN

RNeg(a) == <<-a[1], a[2]>>

RAdd(a, b) ==
    IF IsFinite(a) /\ IsFinite(b)
    THEN LET g == Gcd(a[2], b[2])
         IN  Norm(a[1] * (b[2] \div g) + b[1] * (a[2] \div g), (a[2] \div g) * b[2])
    ELSE IF IsNaN(a) \/ IsNaN(b) THEN NaN
    ELSE IF IsFinite(a) THEN b
    ELSE IF IsFinite(b) THEN a
    ELSE IF a = b THEN a ELSE NaN

RSub(a, b) == RAdd(a, RNeg(b))

RMul(a, b) ==
    IF IsFinite(a) /\ IsFinite(b) THEN Norm(a[1] * b[1], a[2] * b[2])
    ELSE IF IsNaN(a) \/ IsNaN(b) THEN NaN
    ELSE <<Sgn(a[1]) * Sgn(b[1]), 0>>

RDiv(a, b) ==
    IF IsFinite(a) /\ IsFinite(b) THEN Norm(a[1] * b[2], a[2] * b[1])
    ELSE IF IsNaN(a) \/ IsNaN(b) THEN NaN
    ELSE IF IsFinite(b) THEN <<a[1] * (IF b[1] < 0 THEN -1 ELSE 1), 0>>
    ELSE IF IsFinite(a) THEN Zero
    ELSE NaN

RAbs(a) == <<Abs(a[1]), a[2]>>

RLess(a, b) == IsFinite(a) /\ IsFinite(b) /\ a[1] * b[2] < b[1] * a[2]

(* the fourth root of n, exact when n is a perfect fourth power *)
IRoot4(n) == CHOOSE k \in 0..n : k * k * k * k <= n /\ n < (k + 1) * (k + 1) * (k + 1) * (k + 1)

IPow(k, e) == IF e = 1 THEN k ELSE k * k * k * k * k * k * k

(* abs(a) ** (e/4) for e in {1, 7}: the exponents 1/4 and 2-1/4 of cell 5 *)
PowQuarter(a, e) ==
    IF ~IsFinite(a) THEN (IF IsNaN(a) THEN NaN ELSE <<1, 0>>)
    ELSE Norm(IPow(IRoot4(Abs(a[1])), e), IPow(IRoot4(a[2]), e))

Half == <<1, 2>>

(* a running average that halves the weight of the earlier values *)
RECURSIVE RunningMean(_, _)
RunningMean(s, k) ==
    IF k = 0 THEN NaN
    ELSE IF k = 1 THEN s[1]
    ELSE RMul(Half, RAdd(RunningMean(s, k - 1), s[k]))

NpMeanRunning(s) == RunningMean(s, Len(s))

(* np.sum: left-to-right accumulation starting from 0.0 *)
RECURSIVE SumTo(_, _)
SumTo(s, k) == IF k = 0 THEN Zero ELSE RAdd(SumTo(s, k - 1), s[k])

NpSum(s) == SumTo(s, Len(s))

NpMean(s) == RDiv(NpSum(s), FromInt(Len(s)))

(* np.var: mean(abs(a - a.mean()) ** 2), ddof = 0 *)
NpVarUnbiased(s) ==
    LET m == NpMean(s)
        d == [k \in 1..Len(s) |-> RMul(RAbs(RSub(s[k], m)), RAbs(RSub(s[k], m)))]
    IN  RDiv(NpSum(d), FromInt(Len(s) - 1))

NpVar(s) ==
    LET m == NpMean(s)
        d == [k \in 1..Len(s) |-> RMul(RAbs(RSub(s[k], m)), RAbs(RSub(s[k], m)))]
    IN  NpMean(d)

NpZeros(n) == [k \in 1..n |-> Zero]

----------------------------------------------------------------------------
(* The random source: np.random.randn *)

(* theta = 0.1 of cell 5 *)
Theta0 == <<1, 10>>

(* Values of theta + z on which abs(.)**(1/4) and abs(.)**(2-1/4) are       *)
(* rational.  The pole theta + z = 0 of grad2 is left out of the support.  *)
Quartics == << <<-1, 1>>, <<-1, 16>>, <<1, 16>>, <<1, 1>> >>

(* the support of one standard-normal variate z *)
Variate(k) == RSub(Quartics[k], Theta0)

Variates == {Variate(k) : k \in 1..Len(Quartics)}

(* generator states and the state transition of one variate *)
RngStates == 1..12

(* generator states cell 5 is started from *)
Seeds == 1..6

RngStep(s) == (2 * s) % 13

RECURSIVE RngSteps(_, _)
RngSteps(s, k) == IF k = 0 THEN s ELSE RngStep(RngSteps(s, k - 1))

(* the generator state after n variates (the transition has period 12) *)
RngAfter(s, n) == RngSteps(s, n % 12)

(* the variate the generator emits on leaving state s *)
RngOut(s) == Variate((RngStep(s) % Len(Quartics)) + 1)

(* np.random.randn(n) from generator state s; n < 0 raises ValueError *)
Randn(s, n) == [k \in 1..n |-> RngOut(RngAfter(s, k - 1))]

----------------------------------------------------------------------------
(* Cell 5: the estimators *)

(* N = 1000 of cell 5 *)
Cell5N == 1000

(* f(x_i) * (x_i - theta) with f = abs(x)**(1/4) *)
Term1(xi, th) == RMul(PowQuarter(xi, 1), RSub(xi, th))

(* g(theta + eps_i) = (theta + eps)/(4*abs(theta + eps)**(2-1/4)) *)
Term2(ei, th) ==
    RDiv(RAdd(th, ei), RMul(FromInt(4), PowQuarter(RAdd(th, ei), 7)))

(* the score-function summand without the shift by theta *)
Grad1NoShift(xa, th) ==
    RDiv(NpSum([k \in 1..Len(xa) |-> RMul(PowQuarter(xa[k], 1), xa[k])]), FromInt(Len(xa)))

(* grad1 = lambda x: np.sum((abs(x)**(1/4))*(x-theta)) / x.size *)

Grad1(xa, th) ==
    RDiv(NpSum([k \in 1..Len(xa) |-> Term1(xa[k], th)]), FromInt(Len(xa)))

(* grad2 = lambda eps: np.sum(...) / x.size, x being the global array xg *)
Grad2(e, xg, th) ==
    RDiv(NpSum([k \in 1..Len(e) |-> Term2(e[k], th)]), FromInt(Len(xg)))

----------------------------------------------------------------------------
(* State *)

VARIABLES
    theta, Ns, reps,                 \* the configuration
    rng,                             \* state of the process-wide generator
    N, x, eps,                       \* globals shared by cells 5 and 7
    est1, est2,                      \* trial buffers
    means1, vars1, means2, vars2,    \* result arrays
    i, r,                            \* loop indices of cell 7 (0-based)
    pc, err,                         \* position in cell 7, raised exception
    runs, seed0, prev, prevlog,      \* executions of cell 7, seed and result of the last one
    drawn, drawlog, xdraw, epsdraw,  \* history of the draws of this run
    use1, use2, hist1, hist2,        \* history of the trials of this run
    callfn, arg, ret                 \* last direct call of an estimator

cfg == <<theta, Ns, reps>>
glob == <<N, x, eps>>
bufs == <<est1, est2>>
res == <<means1, vars1, means2, vars2>>
loop == <<i, r>>
past == <<runs, seed0, prev, prevlog>>
draws == <<drawn, drawlog, xdraw, epsdraw>>
trials == <<use1, use2, hist1, hist2>>
call == <<callfn, arg, ret>>

vars == <<cfg, rng, glob, bufs, res, loop, pc, err, past, draws, trials, call>>

RECURSIVE SeqsUpTo(_, _)
SeqsUpTo(S, n) ==
    IF n = 0 THEN {<<>>}
    ELSE LET T == SeqsUpTo(S, n - 1)
         IN  T \cup {Append(t, e) : t \in {u \in T : Len(u) = n - 1}, e \in S}

(* sample_sizes and repetitions as a caller may pass them, invalid ones included *)
SampleSizeLists == SeqsUpTo(-1..MaxN, MaxLen)

RepCounts == -1..MaxReps

ValidConfig == Len(Ns) > 0 /\ reps >= 1 /\ \A k \in 1..Len(Ns) : Ns[k] > 0

(* Cell 5 has run from generator state s: N, theta, eps, x are set *)
AfterCell5(s) ==
    /\ theta = Theta0
    /\ N = Cell5N
    /\ eps = Randn(s, Cell5N)
    /\ x = [k \in 1..Cell5N |-> RAdd(theta, eps[k])]
    /\ rng = RngAfter(s, Cell5N)

Fresh ==
    /\ est1 = <<>> /\ est2 = <<>>
    /\ means1 = <<>> /\ vars1 = <<>> /\ means2 = <<>> /\ vars2 = <<>>
    /\ i = 0 /\ r = 0
    /\ pc = "alloc" /\ err = "none"
    /\ runs = 1 /\ seed0 = rng /\ prev = <<>> /\ prevlog = <<>>
    /\ drawn = 0 /\ drawlog = <<>> /\ xdraw = 0 /\ epsdraw = 0
    /\ use1 = <<>> /\ use2 = <<>> /\ hist1 = <<>> /\ hist2 = <<>>
    /\ callfn = "none" /\ arg = <<>> /\ ret = Zero

Init ==
    /\ \E s \in Seeds : AfterCell5(s)
    /\ Ns \in SampleSizeLists
    /\ reps \in RepCounts
    /\ Fresh

----------------------------------------------------------------------------
(* Cell 7: the experiment *)

Result == <<means1, means2, vars1, vars2>>

(* lines 119-125: the result arrays and the trial buffers; np.zeros(reps)  *)
(* raises ValueError for a negative reps                                   *)
Alloc ==
    /\ pc = "alloc"
    /\ means1' = NpZeros(Len(Ns)) /\ vars1' = NpZeros(Len(Ns))
    /\ means2' = NpZeros(Len(Ns)) /\ vars2' = NpZeros(Len(Ns))
    /\ hist1' = [k \in 1..Len(Ns) |-> <<>>]
    /\ hist2' = [k \in 1..Len(Ns) |-> <<>>]
    /\ IF reps < 0
       THEN /\ pc' = "error" /\ err' = "ValueError"
            /\ UNCHANGED <<bufs, loop>>
       ELSE /\ est1' = NpZeros(reps) /\ est2' = NpZeros(reps)
            /\ i' = 0
            /\ pc' = "outer"
            /\ UNCHANGED <<r, err>>
    /\ UNCHANGED <<cfg, rng, glob, past, draws, use1, use2, call>>

(* the list of sample sizes consumed while it is traversed *)
OuterPop ==
    /\ pc = "outer"
    /\ IF i < Len(Ns)
       THEN /\ N' = Ns[i + 1]
            /\ Ns' = [Ns EXCEPT ![i + 1] = 0]
            /\ r' = 0
            /\ pc' = "inner"
       ELSE /\ pc' = "done"
            /\ UNCHANGED <<N, r, Ns>>
    /\ UNCHANGED <<theta, reps, rng, x, eps, bufs, res, i, err, past, draws, trials, call>>

(* line 126: for i, N in enumerate(Ns) *)
Outer ==
    /\ pc = "outer"
    /\ IF i < Len(Ns)
       THEN /\ N' = Ns[i + 1]
            /\ r' = 0
            /\ pc' = "inner"
       ELSE /\ pc' = "done"
            /\ UNCHANGED <<N, r>>
    /\ UNCHANGED <<cfg, rng, x, eps, bufs, res, i, err, past, draws, trials, call>>

(* the repetition loop stopping one trial early *)
InnerOffByOne ==
    /\ pc = "inner"
    /\ pc' = IF r < reps - 1 THEN "drawx" ELSE "aggregate"
    /\ UNCHANGED <<cfg, rng, glob, bufs, res, loop, err, past, draws, trials, call>>

(* line 127: for r in range(reps) *)
Inner ==
    /\ pc = "inner"
    /\ pc' = IF r < reps THEN "drawx" ELSE "aggregate"
    /\ UNCHANGED <<cfg, rng, glob, bufs, res, loop, err, past, draws, trials, call>>

Draw(kind) == [kind |-> kind, i |-> i, r |-> r, from |-> drawn + 1, n |-> N, state |-> rng]

Min(a, b) == IF a < b THEN a ELSE b

(* the draw bound to a name other than the global x, which keeps its old value *)
DrawXLocal ==
    /\ pc = "drawx"
    /\ IF N < 0
       THEN /\ pc' = "error" /\ err' = "ValueError"
            /\ UNCHANGED <<rng, draws>>
       ELSE /\ rng' = RngAfter(rng, N)
            /\ drawn' = drawn + N
            /\ drawlog' = Append(drawlog, Draw("x"))
            /\ xdraw' = Len(drawlog) + 1
            /\ pc' = "grad1"
            /\ UNCHANGED <<err, epsdraw>>
    /\ UNCHANGED <<cfg, N, x, eps, bufs, res, loop, past, trials, call>>

(* x built from the noise already held in eps instead of a new draw *)
DrawXSharedNoise ==
    /\ pc = "drawx"
    /\ x' = [k \in 1..Min(N, Len(eps)) |-> RAdd(eps[k], theta)]
    /\ pc' = "grad1"
    /\ UNCHANGED <<cfg, rng, N, eps, bufs, res, loop, err, past, draws, trials, call>>

(* line 128: x = np.random.randn(N) + theta *)
DrawX ==
    /\ pc = "drawx"
    /\ IF N < 0
       THEN /\ pc' = "error" /\ err' = "ValueError"
            /\ UNCHANGED <<rng, x, draws>>
       ELSE /\ x' = [k \in 1..N |-> RAdd(Randn(rng, N)[k], theta)]
            /\ rng' = RngAfter(rng, N)
            /\ drawn' = drawn + N
            /\ drawlog' = Append(drawlog, Draw("x"))
            /\ xdraw' = Len(drawlog) + 1
            /\ pc' = "grad1"
            /\ UNCHANGED <<err, epsdraw>>
    /\ UNCHANGED <<cfg, N, eps, bufs, res, loop, past, trials, call>>

(* line 129: est1[r] = grad1(x) *)
EstimateScore ==
    /\ pc = "grad1"
    /\ est1' = [est1 EXCEPT ![r + 1] = Grad1(x, theta)]
    /\ use1' = Append(use1, <<i, r, xdraw>>)
    /\ hist1' = [hist1 EXCEPT ![i + 1] = Append(@, Grad1(x, theta))]
    /\ pc' = "draweps"
    /\ UNCHANGED <<cfg, rng, glob, est2, res, loop, err, past, draws, use2, hist2, call>>

(* eps recovered from x, the noise of the score-function draw *)
DrawEpsShared ==
    /\ pc = "draweps"
    /\ eps' = [k \in 1..Len(x) |-> RSub(x[k], theta)]
    /\ epsdraw' = xdraw
    /\ pc' = "grad2"
    /\ UNCHANGED <<cfg, rng, N, x, bufs, res, loop, err, past, drawn, drawlog, xdraw, trials, call>>

(* line 130: eps = np.random.randn(N) *)
DrawEps ==
    /\ pc = "draweps"
    /\ eps' = Randn(rng, N)
    /\ rng' = RngAfter(rng, N)
    /\ drawn' = drawn + N
    /\ drawlog' = Append(drawlog, Draw("eps"))
    /\ epsdraw' = Len(drawlog) + 1
    /\ pc' = "grad2"
    /\ UNCHANGED <<cfg, N, x, bufs, res, loop, err, past, xdraw, trials, call>>

(* line 131: est2[r] = grad2(eps), and the next r *)
EstimateReparam ==
    /\ pc = "grad2"
    /\ est2' = [est2 EXCEPT ![r + 1] = Grad2(eps, x, theta)]
    /\ use2' = Append(use2, <<i, r, epsdraw>>)
    /\ hist2' = [hist2 EXCEPT ![i + 1] = Append(@, Grad2(eps, x, theta))]
    /\ r' = r + 1
    /\ pc' = "inner"
    /\ UNCHANGED <<cfg, rng, glob, est1, res, i, err, past, draws, use1, hist1, call>>

(* the aggregates stored without the index i, at the first position *)
AggregateFirstSlot ==
    /\ pc = "aggregate"
    /\ means1' = [means1 EXCEPT ![1] = NpMean(est1)]
    /\ means2' = [means2 EXCEPT ![1] = NpMean(est2)]
    /\ vars1' = [vars1 EXCEPT ![1] = NpVar(est1)]
    /\ vars2' = [vars2 EXCEPT ![1] = NpVar(est2)]
    /\ i' = i + 1
    /\ pc' = "outer"
    /\ UNCHANGED <<cfg, rng, glob, bufs, r, err, past, draws, trials, call>>

(* lines 132-135: the mean and the variance of the trial buffers, and the next i *)
Aggregate ==
    /\ pc = "aggregate"
    /\ means1' = [means1 EXCEPT ![i + 1] = NpMean(est1)]
    /\ means2' = [means2 EXCEPT ![i + 1] = NpMean(est2)]
    /\ vars1' = [vars1 EXCEPT ![i + 1] = NpVar(est1)]
    /\ vars2' = [vars2 EXCEPT ![i + 1] = NpVar(est2)]
    /\ i' = i + 1
    /\ pc' = "outer"
    /\ UNCHANGED <<cfg, rng, glob, bufs, r, err, past, draws, trials, call>>

(* Cell 7 is executed a second time with the generator put back to the state it    *)
(* had at the start of the last execution                                  *)
Rerun ==
    /\ pc = "done"
    /\ runs = 1
    /\ runs' = runs + 1
    /\ prev' = Result
    /\ prevlog' = drawlog
    /\ rng' = seed0
    /\ pc' = "alloc"
    /\ drawn' = 0 /\ drawlog' = <<>>
    /\ use1' = <<>> /\ use2' = <<>>
    /\ UNCHANGED <<cfg, glob, bufs, res, loop, err, seed0, xdraw, epsdraw, hist1, hist2, call>>

Run == Alloc \/ Outer \/ Inner \/ DrawX \/ EstimateScore \/ DrawEps \/ EstimateReparam \/ Aggregate

Next ==
    \/ Alloc
    \/ Outer
    \/ Inner
    \/ DrawX
    \/ EstimateScore
    \/ DrawEps
    \/ EstimateReparam
    \/ Aggregate
    \/ Rerun

Spec == Init /\ [][Next]_vars

----------------------------------------------------------------------------
(* A direct call of an estimator, as cell 5 makes them (lines 87-88),      *)
(* before or after an execution of cell 7; a behaviour records one call    *)

Args == SeqsUpTo(Variates, MaxArg)

Idle == pc \in {"alloc", "done", "error"}

NoCallYet == callfn = "none"

(* grad1(a) with a = theta + noise *)
CallGrad1 ==
    /\ Idle /\ NoCallYet
    /\ \E a \in Args :
          /\ arg' = [k \in 1..Len(a) |-> RAdd(theta, a[k])]
          /\ ret' = Grad1([k \in 1..Len(a) |-> RAdd(theta, a[k])], theta)
    /\ callfn' = "grad1"
    /\ UNCHANGED <<cfg, rng, glob, bufs, res, loop, pc, err, past, draws, trials>>

(* grad2(a) *)
CallGrad2 ==
    /\ Idle /\ NoCallYet
    /\ \E a \in Args :
          /\ arg' = a
          /\ ret' = Grad2(a, x, theta)
    /\ callfn' = "grad2"
    /\ UNCHANGED <<cfg, rng, glob, bufs, res, loop, pc, err, past, draws, trials>>

(* one repetition of a list of at most one valid sample size *)
InitFn ==
    /\ Init
    /\ Ns \in SeqsUpTo(1..MaxN, 1)
    /\ reps = 1

NextFn ==
    \/ Alloc
    \/ Outer
    \/ Inner
    \/ DrawX
    \/ EstimateScore
    \/ DrawEps
    \/ EstimateReparam
    \/ Aggregate
    \/ CallGrad1
    \/ CallGrad2

SpecFn == InitFn /\ [][NextFn]_vars

----------------------------------------------------------------------------
(* Properties *)

(* C1: an invalid configuration (empty sample_sizes, repetitions < 1 or a  *)
(* sample size <= 0) fails fast with InvalidConfiguration: the run neither *)
(* samples a trial nor writes a result entry nor completes, and the only   *)
(* error it raises is InvalidConfiguration.                                *)
C1_InvalidConfigFailsFast ==
    ~ValidConfig =>
        /\ drawlog = <<>>
        /\ pc \notin {"aggregate", "done"}
        /\ (pc = "error" => err = "InvalidConfiguration")

(* C2: an execution of cell 7 from the generator state and configuration   *)
(* of the previous one makes the same draws in the same order, per trial   *)
(* the draw of x first and the draw of eps second, and ends with the same  *)
(* means1, means2, vars1, vars2.                                           *)
C2_Deterministic ==
    /\ \A k \in 1..Len(drawlog) :
          /\ drawlog[k].kind = (IF k % 2 = 1 THEN "x" ELSE "eps")
          /\ k % 2 = 0 => /\ drawlog[k].i = drawlog[k - 1].i
                          /\ drawlog[k].r = drawlog[k - 1].r
    /\ runs = 2 =>
          /\ Len(drawlog) <= Len(prevlog)
          /\ \A k \in 1..Len(drawlog) : drawlog[k] = prevlog[k]
          /\ pc = "done" => drawlog = prevlog /\ Result = prev

C2_Witness ==
    /\ runs = 2 /\ pc = "done" /\ Len(Ns) = 2
    /\ Len(drawlog) >= 4
    /\ Result = prev
    /\ means1[1] # means1[2]

C4_ReparamVarianceSmaller ==
    (pc = "done" /\ ValidConfig /\ reps >= 2) =>
        \A k \in 1..Len(Ns) : RLess(vars2[k], vars1[k])

RECURSIVE SumRight(_)
SumRight(s) == IF s = <<>> THEN Zero ELSE RAdd(Head(s), SumRight(Tail(s)))

(* C5: grad2 called with N >= 1 epsilons returns the sum over them of      *)
(* g(theta + eps_i), g(t) = t / (4 |t|^(7/4)), divided by N, the number of *)
(* epsilons of that call.                                                  *)
C5_Grad2DividesByOwnSize ==
    (callfn = "grad2" /\ Len(arg) >= 1) =>
        RMul(ret, FromInt(Len(arg)))
            = SumRight([k \in 1..Len(arg) |->
                  RDiv(RAdd(theta, arg[k]),
                       RMul(FromInt(4), PowQuarter(RAdd(theta, arg[k]), 7)))])

(* C6: grad1 called with N >= 1 samples returns the sum over them of       *)
(* f(x_i) * (x_i - theta), f(t) = |t|^(1/4), divided by N, the number of   *)
(* samples of that call.                                                   *)
C6_Grad1DividesByOwnSize ==
    (callfn = "grad1" /\ Len(arg) >= 1) =>
        /\ IsFinite(ret)
        /\ RMul(ret, FromInt(Len(arg)))
              = SumRight([k \in 1..Len(arg) |->
                    RMul(PowQuarter(arg[k], 1), RSub(arg[k], theta))])

C6_Witness ==
    /\ callfn = "grad1" /\ Len(arg) = MaxArg /\ arg[1] # arg[2]
    /\ Len(x) # Len(arg)
    /\ ret # Zero

(* the n variates the generator emits from position from of the stream of this run *)
StreamAt(from, n) == [k \in 1..n |-> RngOut(RngAfter(seed0, from + k - 2))]

(* C7: every trial makes two separate draws of N variates, the first used  *)
(* by grad1 only and the second by grad2 only; the draws take disjoint     *)
(* stretches of the random stream and no draw serves two estimator calls.  *)
C7_FreshDraws ==
    /\ \A k \in 1..Len(drawlog) :
          /\ drawlog[k].n = Ns[drawlog[k].i + 1]
          /\ \A j \in 1..(k - 1) : drawlog[j].from + drawlog[j].n <= drawlog[k].from
    /\ \A k \in 1..Len(use1) :
          LET d == use1[k][3]
          IN  /\ d \in 1..Len(drawlog)
              /\ drawlog[d].kind = "x"
              /\ drawlog[d].i = use1[k][1] /\ drawlog[d].r = use1[k][2]
              /\ \A j \in 1..Len(use1) : j # k => use1[j][3] # d
    /\ \A k \in 1..Len(use2) :
          LET d == use2[k][3]
          IN  /\ d \in 1..Len(drawlog)
              /\ drawlog[d].kind = "eps"
              /\ drawlog[d].i = use2[k][1] /\ drawlog[d].r = use2[k][2]
              /\ \A j \in 1..Len(use2) : j # k => use2[j][3] # d
              /\ \A j \in 1..Len(use1) : use1[j][3] # d
    /\ pc = "grad1" =>
          /\ xdraw = Len(drawlog)
          /\ x = [k \in 1..N |-> RAdd(StreamAt(drawlog[xdraw].from, N)[k], theta)]
    /\ pc = "grad2" =>
          /\ epsdraw = Len(drawlog) /\ xdraw = Len(drawlog) - 1
          /\ eps = StreamAt(drawlog[epsdraw].from, N)
    /\ pc = "done" => Len(use1) = Len(Ns) * reps /\ Len(use2) = Len(Ns) * reps

C7_Witness ==
    /\ pc = "done" /\ Len(Ns) = 2 /\ reps >= 2 /\ Ns[1] >= 2
    /\ Len(use1) >= 4 /\ Len(use2) >= 4 /\ Len(drawlog) = 2 * Len(use1)
    /\ drawn = 2 * reps * (Ns[1] + Ns[2])

(* C8: the mean and the variance at a position of the result arrays are    *)
(* written once all reps trials of that sample size are done, from exactly *)
(* the reps values those trials produced; until then the position holds    *)
(* its initial zero.                                                       *)
C8_AggregateOwnTrials ==
    (pc \notin {"alloc", "error"}) =>
        \A k \in 1..Len(Ns) :
            IF k <= i
            THEN /\ Len(hist1[k]) = reps /\ Len(hist2[k]) = reps
                 /\ means1[k] = NpMean(hist1[k]) /\ vars1[k] = NpVar(hist1[k])
                 /\ means2[k] = NpMean(hist2[k]) /\ vars2[k] = NpVar(hist2[k])
            ELSE /\ means1[k] = Zero /\ vars1[k] = Zero
                 /\ means2[k] = Zero /\ vars2[k] = Zero
                 /\ Len(hist1[k]) <= reps
                 /\ (pc = "aggregate" /\ k = i + 1) => Len(hist2[k]) = reps

C8_Witness ==
    /\ pc = "done" /\ Len(Ns) = 2 /\ reps >= 2
    /\ hist1[1] # hist1[2] /\ hist2[1] # hist2[2]
    /\ means1[1] # means1[2] /\ vars2[1] # vars2[2]
    /\ means1[2] = NpMean(hist1[2])

Reorder(s, p) == [k \in 1..Len(s) |-> s[p[k]]]

C10_ConfigUnchanged == [][theta' = theta /\ Ns' = Ns /\ reps' = reps]_vars

C10_Witness ==
    /\ pc = "done" /\ runs = 2 /\ Len(Ns) = 2 /\ reps >= 2
    /\ theta = Theta0 /\ Len(drawlog) >= 4

(* C11: at every call of grad2 in the loop the global x is the array drawn *)
(* earlier in the same trial with the current sample size N, so x.size is  *)
(* the number of epsilons passed (never the size of an earlier sample      *)
(* size's x nor the 1000 of cell 5), and the value stored in est2 is the   *)
(* sum of the summands over eps divided by the size of eps.                *)
C11_DivisorIsArgumentSize ==
    /\ pc \in {"grad1", "draweps", "grad2"} =>
          /\ N = Ns[i + 1]
          /\ Len(x) = N
          /\ xdraw \in 1..Len(drawlog)
          /\ drawlog[xdraw].kind = "x"
          /\ drawlog[xdraw].i = i /\ drawlog[xdraw].r = r /\ drawlog[xdraw].n = N
    /\ pc = "grad2" => Len(eps) = N /\ Len(x) = Len(eps)
    /\ (pc = "inner" /\ r >= 1 /\ N >= 1) =>
          /\ Len(x) = Len(eps)
          /\ est2[r] = hist2[i + 1][r]
          /\ RMul(est2[r], FromInt(Len(eps)))
                = SumRight([k \in 1..Len(eps) |->
                      RDiv(RAdd(theta, eps[k]),
                           RMul(FromInt(4), PowQuarter(RAdd(theta, eps[k]), 7)))])

C11_Witness ==
    /\ pc = "grad2" /\ i = 1 /\ r = 0
    /\ Ns[1] >= 1 /\ Ns[2] >= 1 /\ Ns[1] # Ns[2]
    /\ Len(x) = Ns[2] /\ Len(eps) = Ns[2]
    /\ Len(x) # Cell5N

(* the trials of a run in the order the loops make them *)
TrialAt(k) == <<(k - 1) \div reps, (k - 1) % reps>>

(* statements of cell 7 one sample size takes, and the statements left    *)
(* before the run is over                                                  *)
PerSize == 5 * reps + 3

StepsLeft ==
    LET later == (Len(Ns) - i - 1) * PerSize + 1
        trial == (reps - r) * 5
    IN  CASE pc = "alloc" -> Len(Ns) * PerSize + 2
          [] pc = "outer" -> (Len(Ns) - i) * PerSize + 1
          [] pc = "inner" -> trial + 2 + later
          [] pc = "drawx" -> trial + 1 + later
          [] pc = "grad1" -> trial + later
          [] pc = "draweps" -> trial - 1 + later
          [] pc = "grad2" -> trial - 2 + later
          [] pc = "aggregate" -> 1 + later
          [] OTHER -> 0

(* C12: a run with a valid configuration terminates: no statement raises,  *)
(* and each statement run brings the end one statement nearer, the count   *)
(* of statements left being zero at the end only.  It makes exactly len(Ns) * reps trials, the sample   *)
(* sizes once each in list order with reps trials each; and it writes each *)
(* position of the four result arrays once, in list order, leaving a       *)
(* written position alone until the run is over.                           *)
C12_TerminatesWriteOnce ==
    /\ [](ValidConfig =>
            /\ pc # "error"
            /\ \A k \in 1..Len(use1) :
                  /\ <<use1[k][1], use1[k][2]>> = TrialAt(k)
                  /\ drawlog[use1[k][3]].n = Ns[use1[k][1] + 1]
            /\ \A k \in 1..Len(use2) : <<use2[k][1], use2[k][2]>> = TrialAt(k)
            /\ Len(use2) <= Len(use1) /\ Len(use1) <= Len(use2) + 1
            /\ Len(use1) <= Len(Ns) * reps
            /\ pc = "done" =>
                  /\ i = Len(Ns)
                  /\ Len(use1) = Len(Ns) * reps /\ Len(use2) = Len(Ns) * reps
                  /\ Len(means1) = Len(Ns) /\ Len(vars1) = Len(Ns)
                  /\ Len(means2) = Len(Ns) /\ Len(vars2) = Len(Ns))
    /\ [][(ValidConfig /\ pc # "alloc") =>
            /\ \A k \in 1..Len(Ns) :
                  (k <= i \/ k > i + 1) =>
                      /\ means1'[k] = means1[k] /\ vars1'[k] = vars1[k]
                      /\ means2'[k] = means2[k] /\ vars2'[k] = vars2[k]
            /\ res' # res => pc = "aggregate" /\ i' = i + 1]_vars
    /\ [](ValidConfig =>
            /\ StepsLeft >= 0
            /\ StepsLeft = 0 <=> pc = "done")
    /\ [][(ValidConfig /\ pc # "done") => StepsLeft' = StepsLeft - 1]_vars

C12_Witness ==
    /\ pc = "done" /\ ValidConfig /\ Len(Ns) = 2 /\ reps >= 2
    /\ Len(use1) = 2 * reps /\ i = 2
    /\ means1[1] # means1[2] /\ means1[2] # Zero /\ vars2[1] # vars2[2]

====
